---- MODULE Spec2Model ----
(***************************************************************************)
(* Segmentation-aware parser evaluation (lstm_parser/evaluate.py) and the  *)
(* evaluate / checkpoint part of the training loop (parse/train.py).       *)
(*                                                                         *)
(* Python lists are modelled as follows: predicted_list, gold_list and     *)
(* evaluation_list are TLA+ sequences (Python index i is TLA+ index i+1);  *)
(* the index maps built by generate_start_end_map and the alignment map    *)
(* two_set_map are functions on 0..n-1, indexed exactly as in the code.    *)
(* Python's true division yields floats; here every rate is the exact      *)
(* rational <<numerator, denominator>> in lowest terms.                    *)
(***************************************************************************)
EXTENDS Integers, Sequences, FiniteSets, TLC

VARIABLES predicted_list, gold_list, pc, predict_gold_map, correct_count,
          raised, evaluation,
          evaluation_list, epoch_eval,
          epoch_count, last_f1, last_uas, max_f1, max_uas,
          training_batch_loss, last_batch_loss, saved, logs

vars == <<predicted_list, gold_list, pc, predict_gold_map, correct_count,
          raised, evaluation,
          evaluation_list, epoch_eval,
          epoch_count, last_f1, last_uas, max_f1, max_uas,
          training_batch_loss, last_batch_loss, saved, logs>>

evalVars == <<predicted_list, gold_list, predict_gold_map, correct_count,
             raised, evaluation>>
epochVars == <<evaluation_list, epoch_eval>>
trainVars == <<epoch_count, last_f1, last_uas, max_f1, max_uas,
               training_batch_loss, last_batch_loss, saved, logs>>

(***************************************************************************)
(* Bounds of the model.                                                    *)
(***************************************************************************)
\* longest token list drawn as an input of get_parser_evaluation
MaxTokens == 2
\* most sentence records handed to get_epoch_evaluation
MaxSentences == 3
\* epochs the model lets the training loop run past its 20 mandatory ones
ExtraEpochs == 2

\* token texts the inputs are built from
Vocabulary == {"a", "b", "ab"}
PosTags == {"N", "V"}
DepLabels == {"root", "obj"}

(***************************************************************************)
(* Exact rational arithmetic for Python's float expressions.               *)
(***************************************************************************)
Abs(n) == IF n < 0 THEN -n ELSE n

RECURSIVE GCD(_, _)
GCD(a, b) == IF b = 0 THEN a ELSE GCD(b, a % b)

\* the rational n/d (d # 0) in lowest terms with a positive denominator
Rat(n, d) ==
    LET g == GCD(Abs(n), Abs(d))
        s == IF d < 0 THEN -1 ELSE 1
    IN  <<(s * n) \div g, (s * d) \div g>>

FromInt(n) == <<n, 1>>
RAdd(x, y) == Rat(x[1] * y[2] + y[1] * x[2], x[2] * y[2])
RMul(x, y) == Rat(x[1] * y[1], x[2] * y[2])
\* x / y for y # 0
RDiv(x, y) == Rat(x[1] * y[2], x[2] * y[1])
RLe(x, y) == x[1] * y[2] <= y[1] * x[2]
RLt(x, y) == x[1] * y[2] < y[1] * x[2]
RMax(x, y) == IF RLt(x, y) THEN y ELSE x

RECURSIVE RSum(_)
RSum(s) == IF s = <<>> THEN FromInt(0) ELSE RAdd(Head(s), RSum(Tail(s)))

RECURSIVE ISum(_)
ISum(s) == IF s = <<>> THEN 0 ELSE Head(s) + ISum(Tail(s))

(***************************************************************************)
(* evaluate.py                                                             *)
(***************************************************************************)
\* Python's None in an index map or in the alignment map (every real entry
\* is an offset or a token index, hence >= 0)
None == -1

NoException == "None"

\* number of entries of a Python list modelled as a function on 0..n-1
PyLen(f) == Cardinality(DOMAIN f)

Words(token_list) == [i \in 1..Len(token_list) |-> token_list[i].word]

\* generate_start_end_map, the loop of lines 88-96: word k (1-based here,
\* word_idx k-1 in the code) starts at last_idx
RECURSIVE FillStartEnd(_, _, _, _)
FillStartEnd(data_list, k, last_idx, data_map) ==
    IF k > Len(data_list) THEN data_map
    ELSE LET start_idx == last_idx
             end_idx == start_idx + Len(data_list[k])
         IN  FillStartEnd(data_list, k + 1, end_idx,
                 [data_map EXCEPT ![start_idx] =
                     [end |-> end_idx, word_idx |-> k - 1]])

generate_start_end_map(data_list) ==
    LET n_len == ISum([i \in 1..Len(data_list) |-> Len(data_list[i])])
        data_map == [i \in 0..(n_len - 1) |-> [end |-> None, word_idx |-> None]]
    IN  FillStartEnd(data_list, 1, 0, data_map)

\* line 72, evaluated left to right: the gold index map is read only when a
\* predicted token starts at start_idx
GoldLookupRaises(predicted_index_map, gold_index_map, start_idx) ==
    /\ predicted_index_map[start_idx].end # None
    /\ start_idx >= PyLen(gold_index_map)

\* a token starts at start_idx on both sides; the end offsets go uncompared
SameSpanAt_StartOnly(predicted_index_map, gold_index_map, start_idx) ==
    /\ predicted_index_map[start_idx].end # None
    /\ gold_index_map[start_idx].end # None

SameSpanAt(predicted_index_map, gold_index_map, start_idx) ==
    /\ predicted_index_map[start_idx].end # None
    /\ gold_index_map[start_idx].end = predicted_index_map[start_idx].end

\* line 74: words are 1-based in the alignment map (0 is for ROOT)
GoldTokenIndex(gold_word_idx) == gold_word_idx + 1

\* the loop of lines 68-75 from start_idx on; count is correct_count
RECURSIVE MapLoop(_, _, _, _, _)
MapLoop(predicted_index_map, gold_index_map, start_idx, two_set_map, count) ==
    IF start_idx >= PyLen(predicted_index_map)
    THEN [two_set_map |-> two_set_map, correct_count |-> count,
          raised |-> NoException]
    ELSE IF GoldLookupRaises(predicted_index_map, gold_index_map, start_idx)
    THEN [two_set_map |-> two_set_map, correct_count |-> count,
          raised |-> "IndexError"]
    ELSE IF SameSpanAt(predicted_index_map, gold_index_map, start_idx)
    THEN MapLoop(predicted_index_map, gold_index_map, start_idx + 1,
             [two_set_map EXCEPT ![predicted_index_map[start_idx].word_idx + 1] =
                 GoldTokenIndex(gold_index_map[start_idx].word_idx)],
             count + 1)
    ELSE MapLoop(predicted_index_map, gold_index_map, start_idx + 1,
             two_set_map, count)

map_predicted_with_gold_words(predicted, gold) ==
    LET predicted_index_map == generate_start_end_map(Words(predicted))
        gold_index_map == generate_start_end_map(Words(gold))
        two_set_map == [p \in 0..Len(predicted) |-> IF p = 0 THEN 0 ELSE None]
    IN  MapLoop(predicted_index_map, gold_index_map, 0, two_set_map, 0)

\* lines 105-111 for the predicted token at Python index word_idx
PosHit(predicted, gold, two_set_map, word_idx) ==
    LET word_gold_index == two_set_map[word_idx + 1]
    IN  /\ word_gold_index # None
        /\ predicted[word_idx + 1].pos = gold[word_gold_index].pos

get_pos_match(predicted, gold, two_set_map) ==
    Cardinality({word_idx \in 0..(Len(predicted) - 1) :
                     PosHit(predicted, gold, two_set_map, word_idx)})

\* an unmapped head read as ROOT
HeadHit_NoneAsRoot(two_set_map, predicted_head_node, gold_head_node) ==
    (IF two_set_map[predicted_head_node] = None THEN 0
     ELSE two_set_map[predicted_head_node]) = gold_head_node

\* line 129: the predicted head, looked up in the alignment map, against the
\* gold head (None == <int> is False in Python)
HeadHit(two_set_map, predicted_head_node, gold_head_node) ==
    two_set_map[predicted_head_node] = gold_head_node

\* lines 120-130 for the predicted token at Python index word_idx
UasHit(predicted, gold, two_set_map, word_idx) ==
    LET word_gold_index == two_set_map[word_idx + 1]
    IN  /\ word_gold_index # None
        /\ HeadHit(two_set_map, predicted[word_idx + 1].head_idx,
                   gold[word_gold_index].head_idx)

\* the label test moved out of the head test
LasHit_NotNested(predicted, gold, two_set_map, word_idx) ==
    /\ two_set_map[word_idx + 1] # None
    /\ predicted[word_idx + 1].dep_label =
           gold[two_set_map[word_idx + 1]].dep_label

\* lines 120-133
LasHit(predicted, gold, two_set_map, word_idx) ==
    /\ UasHit(predicted, gold, two_set_map, word_idx)
    /\ predicted[word_idx + 1].dep_label =
           gold[two_set_map[word_idx + 1]].dep_label

\* the loop stops one token early
get_uas_las_match_SkipLast(predicted, gold, two_set_map) ==
    [uas_count |-> Cardinality({word_idx \in 0..(Len(predicted) - 2) :
                       UasHit(predicted, gold, two_set_map, word_idx)}),
     las_count |-> Cardinality({word_idx \in 0..(Len(predicted) - 2) :
                       LasHit(predicted, gold, two_set_map, word_idx)})]

get_uas_las_match(predicted, gold, two_set_map) ==
    [uas_count |-> Cardinality({word_idx \in 0..(Len(predicted) - 1) :
                       UasHit(predicted, gold, two_set_map, word_idx)}),
     las_count |-> Cardinality({word_idx \in 0..(Len(predicted) - 1) :
                       LasHit(predicted, gold, two_set_map, word_idx)})]

get_f1_score(precision, recall) ==
    IF RLt(FromInt(0), RAdd(precision, recall))
    THEN RDiv(RMul(FromInt(2), RMul(precision, recall)), RAdd(precision, recall))
    ELSE FromInt(0)

\* the ratio left unscaled
Percent_Unscaled(count, length) == Rat(count, length)

\* (count / length) * 100, lines 12-13, 19-20, 24-25; length # 0
Percent(count, length) == RMul(Rat(count, length), FromInt(100))

\* (count / correct_count) * 100 if correct_count > 0 else 0, lines 16, 18, 23
GuardedPercent(count, correct) ==
    IF correct > 0 THEN Percent(count, correct) ELSE FromInt(0)

\* the exception get_parser_evaluation ends with, NoException when it returns:
\* the IndexError of line 72, else the ZeroDivisionError of line 12 or 13
Raises(predicted, gold) ==
    LET m == map_predicted_with_gold_words(predicted, gold)
    IN  IF m.raised # NoException THEN m.raised
        ELSE IF Len(predicted) = 0 \/ Len(gold) = 0 THEN "ZeroDivisionError"
        ELSE NoException

\* the dictionary get_parser_evaluation returns when it raises nothing
get_parser_evaluation(predicted, gold) ==
    LET m == map_predicted_with_gold_words(predicted, gold)
        correct == m.correct_count
        pos_correct_count == get_pos_match(predicted, gold, m.two_set_map)
        ul == get_uas_las_match(predicted, gold, m.two_set_map)
        precision == Percent(correct, Len(predicted))
        recall == Percent(correct, Len(gold))
        uas_precision == Percent(ul.uas_count, Len(predicted))
        uas_recall == Percent(ul.uas_count, Len(gold))
        las_precision == Percent(ul.las_count, Len(predicted))
        las_recall == Percent(ul.las_count, Len(gold))
    IN  [predicted_list_len |-> Len(predicted),
         gold_list_len |-> Len(gold),
         correct_count |-> correct,
         precision |-> precision,
         recall |-> recall,
         f1_score |-> get_f1_score(precision, recall),
         pos_match |-> pos_correct_count,
         pos_acc |-> GuardedPercent(pos_correct_count, correct),
         uas_match |-> ul.uas_count,
         uas_score |-> GuardedPercent(ul.uas_count, correct),
         uas_precision |-> uas_precision,
         uas_recall |-> uas_recall,
         uas_f1_score |-> get_f1_score(uas_precision, uas_recall),
         las_match |-> ul.las_count,
         las_score |-> GuardedPercent(ul.las_count, correct),
         las_precision |-> las_precision,
         las_recall |-> las_recall,
         las_f1_score |-> get_f1_score(las_precision, las_recall)]

\* what a caller holds after an exception: no dictionary
NoEvaluation == <<>>
NoMap == <<>>

Column(evaluation_records, key) ==
    [i \in 1..Len(evaluation_records) |-> evaluation_records[i][key]]

\* sum(x[key] for x in evaluation_list) / n_eval, lines 35-42; n_eval # 0
MeanOf(evaluation_records, key) ==
    RDiv(RSum(Column(evaluation_records, key)), FromInt(Len(evaluation_records)))

\* sum([x[key] for x in evaluation_list]), lines 44-49
SumOf(evaluation_records, key) == ISum(Column(evaluation_records, key))

EpochCounts(evaluation_records) ==
    [correct_words |-> SumOf(evaluation_records, "correct_count"),
     all_gold_words |-> SumOf(evaluation_records, "gold_list_len"),
     all_predicted_words |-> SumOf(evaluation_records, "predicted_list_len"),
     correct_pos |-> SumOf(evaluation_records, "pos_match"),
     correct_uas |-> SumOf(evaluation_records, "uas_match"),
     correct_las |-> SumOf(evaluation_records, "las_match")]

EpochRates(evaluation_records) ==
    [word_precision |-> MeanOf(evaluation_records, "precision"),
     word_recall |-> MeanOf(evaluation_records, "recall"),
     word_f1_score |-> MeanOf(evaluation_records, "f1_score"),
     pos_accuracy |-> MeanOf(evaluation_records, "pos_acc"),
     uas_accuracy |-> MeanOf(evaluation_records, "uas_score"),
     las_accuracy |-> MeanOf(evaluation_records, "las_score"),
     uas_f1_score |-> MeanOf(evaluation_records, "uas_f1_score"),
     las_f1_score |-> MeanOf(evaluation_records, "las_f1_score")]

\* word_precision and word_recall pooled over the epoch's counts
get_epoch_evaluation_Pooled(evaluation_records) ==
    [word_precision |-> Percent(SumOf(evaluation_records, "correct_count"),
                                SumOf(evaluation_records, "predicted_list_len")),
     word_recall |-> Percent(SumOf(evaluation_records, "correct_count"),
                             SumOf(evaluation_records, "gold_list_len"))]
    @@ EpochRates(evaluation_records) @@ EpochCounts(evaluation_records)

\* the dictionary get_epoch_evaluation returns for a non-empty list; on an
\* empty one line 35 raises ZeroDivisionError
get_epoch_evaluation(evaluation_records) ==
    EpochRates(evaluation_records) @@ EpochCounts(evaluation_records)

(***************************************************************************)
(* Inputs of get_parser_evaluation.  SegmentationInputs vary the token     *)
(* texts (empty lists and character streams of different lengths           *)
(* included) with every attribute at its default; AttributeInputs vary     *)
(* pos, head_idx and dep_label over a fixed set of segmentations.  The     *)
(* code compares pos and dep_label for equality only, so the gold labels   *)
(* range over two label pairs while the predicted ones range over all.     *)
(***************************************************************************)
Token(w, p, h, d) == [word |-> w, pos |-> p, head_idx |-> h, dep_label |-> d]

PlainToken(w) == Token(w, "N", 0, "root")

WordLists == UNION {[1..n -> Vocabulary] : n \in 0..MaxTokens}

PlainList(words) == [i \in 1..Len(words) |-> PlainToken(words[i])]

SegmentationInputs ==
    {<<PlainList(pw), PlainList(gw)>> : pw \in WordLists, gw \in WordLists}

AttrSegmentations ==
    { <<(<<"ab">>), (<<"ab">>)>>,
      <<(<<"a", "b">>), (<<"a", "b">>)>>,
      <<(<<"ab">>), (<<"a", "b">>)>>,
      <<(<<"a", "b">>), (<<"ab">>)>>,
      <<(<<"a", "b">>), (<<"a", "ab">>)>> }

PredictedLists(words) ==
    {[i \in 1..Len(words) |->
          Token(words[i], c[i].pos, c[i].head_idx, c[i].dep_label)] :
      c \in [1..Len(words) ->
                [pos : PosTags, head_idx : 0..Len(words), dep_label : DepLabels]]}

GoldLabels == {[pos |-> "N", dep_label |-> "root"], [pos |-> "V", dep_label |-> "obj"]}

GoldLists(words) ==
    {[i \in 1..Len(words) |->
          Token(words[i], c[i].label.pos, c[i].head_idx, c[i].label.dep_label)] :
      c \in [1..Len(words) -> [label : GoldLabels, head_idx : 0..Len(words)]]}

AttributeInputs ==
    UNION {PredictedLists(sg[1]) \X GoldLists(sg[2]) : sg \in AttrSegmentations}

\* sentences with attributes at their defaults: the alignment example
\* "ab","cd" against "a","bcd", and one where only the last token aligns
ExampleInputs ==
    { <<PlainList(<<"ab", "cd">>), PlainList(<<"a", "bcd">>)>>,
      <<PlainList(<<"a", "b", "ab">>), PlainList(<<"ab", "ab">>)>> }

SentenceInputs == SegmentationInputs \cup AttributeInputs \cup ExampleInputs

\* head_idx varied, pos and dep_label at their defaults
HeadLists(words) ==
    {[i \in 1..Len(words) |-> Token(words[i], "N", h[i], "root")] :
      h \in [1..Len(words) -> 0..Len(words)]}

HeadInputs ==
    UNION {HeadLists(sg[1]) \X HeadLists(sg[2]) : sg \in AttrSegmentations}

ExtensionInputs == SegmentationInputs \cup HeadInputs

(***************************************************************************)
(* Spec: one call of get_parser_evaluation on a sentence.                  *)
(* SpecExtend: the call, then a second call on the sentence extended by    *)
(* one token on both sides.                                                *)
(***************************************************************************)
EpochIdle ==
    /\ evaluation_list = <<>>
    /\ epoch_eval = NoEvaluation

TrainIdle ==
    /\ epoch_count = 0
    /\ last_f1 = <<>>
    /\ last_uas = <<>>
    /\ max_f1 = FromInt(0)
    /\ max_uas = FromInt(0)
    /\ training_batch_loss = 0
    /\ last_batch_loss = [sum |-> 0, len |-> 0]
    /\ saved = <<>>
    /\ logs = <<>>

NotCalled ==
    /\ predict_gold_map = NoMap
    /\ correct_count = None
    /\ raised = NoException
    /\ evaluation = NoEvaluation

InitFrom(inputs) ==
    /\ \E input \in inputs :
          /\ predicted_list = input[1]
          /\ gold_list = input[2]
    /\ pc = "input"
    /\ NotCalled
    /\ EpochIdle
    /\ TrainIdle

Init == InitFrom(SentenceInputs)

\* the call get_parser_evaluation(predicted, gold) as its caller sees it,
\* with the two locals of line 4
Call(predicted, gold) ==
    LET m == map_predicted_with_gold_words(predicted, gold)
    IN  /\ predict_gold_map' =
              IF m.raised = NoException THEN m.two_set_map ELSE NoMap
        /\ correct_count' =
              IF m.raised = NoException THEN m.correct_count ELSE None
        /\ raised' = Raises(predicted, gold)
        /\ evaluation' =
              IF Raises(predicted, gold) = NoException
              THEN get_parser_evaluation(predicted, gold)
              ELSE NoEvaluation

Evaluate ==
    /\ pc = "input"
    /\ Call(predicted_list, gold_list)
    /\ pc' = "done"
    /\ UNCHANGED <<predicted_list, gold_list, epochVars, trainVars>>

Next == Evaluate

Spec == Init /\ [][Next]_vars

StreamLen(token_list) ==
    ISum([i \in 1..Len(token_list) |-> Len(token_list[i].word)])

\* one more token with the same text on both sides of a sentence whose
\* character streams are equally long, then the call again
EvaluateExtended ==
    /\ pc = "done"
    /\ raised = NoException
    /\ StreamLen(predicted_list) = StreamLen(gold_list)
    /\ \E w \in Vocabulary, ph \in 0..(Len(predicted_list) + 1),
          gh \in 0..(Len(gold_list) + 1) :
          /\ predicted_list' = Append(predicted_list, Token(w, "N", ph, "root"))
          /\ gold_list' = Append(gold_list, Token(w, "N", gh, "root"))
          /\ Call(predicted_list', gold_list')
    /\ pc' = "extended"
    /\ UNCHANGED <<epochVars, trainVars>>

InitExtend == InitFrom(ExtensionInputs)

NextExtend == Evaluate \/ EvaluateExtended

SpecExtend == InitExtend /\ [][NextExtend]_vars

(***************************************************************************)
(* Vocabulary of the properties: spans and streams computed from the       *)
(* token lists themselves, not from the index maps.                        *)
(***************************************************************************)
RECURSIVE Stream(_)
Stream(token_list) ==
    IF token_list = <<>> THEN ""
    ELSE Head(token_list).word \o Stream(Tail(token_list))

StartOffset(token_list, i) == StreamLen(SubSeq(token_list, 1, i - 1))
EndOffset(token_list, i) == StreamLen(SubSeq(token_list, 1, i))

SameSpan(p, g) ==
    /\ StartOffset(predicted_list, p) = StartOffset(gold_list, g)
    /\ EndOffset(predicted_list, p) = EndOffset(gold_list, g)

SameStream == Stream(predicted_list) = Stream(gold_list)

Called == pc # "input"
Returned == Called /\ raised = NoException
MapReturned == Called /\ raised # "IndexError"

PredictedIdx == 1..Len(predicted_list)
GoldIdx == 1..Len(gold_list)
Mapped == {p \in PredictedIdx : predict_gold_map[p] # None}

Hundred == FromInt(100)
Zero == FromInt(0)
InPercentRange(x) == RLe(Zero, x) /\ RLe(x, Hundred)

(***************************************************************************)
(* C1: over one character stream the alignment map has length              *)
(* len(predicted)+1, maps 0 to 0, maps predicted token p to gold token g   *)
(* exactly when both have the same start and end offset, to None when no   *)
(* gold token has that span, and correct_count is the number of mapped     *)
(* tokens; "ab","cd" against "a","bcd" maps nothing.                       *)
(***************************************************************************)
C1_AlignmentByExactSpan ==
    (Called /\ SameStream) =>
        /\ raised # "IndexError"
        /\ DOMAIN predict_gold_map = 0..Len(predicted_list)
        /\ predict_gold_map[0] = 0
        /\ \A p \in PredictedIdx :
              /\ \A g \in GoldIdx : (predict_gold_map[p] = g) <=> SameSpan(p, g)
              /\ (predict_gold_map[p] = None) <=> ~ \E g \in GoldIdx : SameSpan(p, g)
        /\ correct_count = Cardinality(Mapped)
        /\ (Words(predicted_list) = <<"ab", "cd">> /\ Words(gold_list) = <<"a", "bcd">>)
              => (correct_count = 0 /\ Mapped = {})

\* one character stream on which only the third predicted token has a gold
\* token's span, the second gold one
C1_Witness ==
    /\ Called
    /\ Words(predicted_list) = <<"a", "b", "ab">>
    /\ Words(gold_list) = <<"ab", "ab">>
    /\ SameStream
    /\ predict_gold_map = (0 :> 0) @@ (1 :> None) @@ (2 :> None) @@ (3 :> 2)
    /\ correct_count = 1

(***************************************************************************)
(* C2: get_parser_evaluation raises nothing on an empty predicted or an    *)
(* empty gold list and returns precision = 0 and recall = 0 there.         *)
(***************************************************************************)
C2_EmptyListsYieldZero ==
    (Called /\ (predicted_list = <<>> \/ gold_list = <<>>)) =>
        /\ raised = NoException
        /\ evaluation.precision = Zero
        /\ evaluation.recall = Zero

(***************************************************************************)
(* C3: get_uas_las_match counts predicted token p for uas exactly when p   *)
(* is mapped, its predicted head is mapped, and the head's image is the    *)
(* gold token's head; for las exactly when, besides, the labels agree.  A  *)
(* token with an unmapped head, or an unmapped token, is never counted.    *)
(***************************************************************************)
UasCorrect(p) ==
    /\ predict_gold_map[p] # None
    /\ predict_gold_map[predicted_list[p].head_idx] # None
    /\ predict_gold_map[predicted_list[p].head_idx] =
           gold_list[predict_gold_map[p]].head_idx

LasCorrect(p) ==
    /\ UasCorrect(p)
    /\ predicted_list[p].dep_label = gold_list[predict_gold_map[p]].dep_label

C3_AttachmentThroughMap ==
    /\ MapReturned =>
          \A p \in PredictedIdx :
              /\ UasHit(predicted_list, gold_list, predict_gold_map, p - 1)
                    <=> UasCorrect(p)
              /\ LasHit(predicted_list, gold_list, predict_gold_map, p - 1)
                    <=> LasCorrect(p)
              /\ (predict_gold_map[p] = None
                    \/ predict_gold_map[predicted_list[p].head_idx] = None)
                    => ~ UasHit(predicted_list, gold_list, predict_gold_map, p - 1)
    /\ Returned =>
          /\ evaluation.uas_match = Cardinality({p \in PredictedIdx : UasCorrect(p)})
          /\ evaluation.las_match = Cardinality({p \in PredictedIdx : LasCorrect(p)})

\* a mapped token whose gold head is ROOT and whose predicted head is an
\* unmapped token, not counted
C3_Witness ==
    /\ Returned
    /\ \E p \in PredictedIdx :
          /\ predict_gold_map[p] # None
          /\ predict_gold_map[predicted_list[p].head_idx] = None
          /\ gold_list[predict_gold_map[p]].head_idx = 0
    /\ evaluation.uas_match = 0

(***************************************************************************)
(* C4: with character streams of different total lengths                   *)
(* map_predicted_with_gold_words completes without an error.               *)
(***************************************************************************)
C4_DifferentLengthsNoError ==
    (Called /\ StreamLen(predicted_list) # StreamLen(gold_list)) =>
        raised # "IndexError"

(***************************************************************************)
(* C5: for non-empty lists over one character stream every rate of the     *)
(* record lies in [0, 100], and                                            *)
(* 0 <= las_match <= uas_match <= correct_count,                           *)
(* 0 <= pos_match <= correct_count <= min(predicted_list_len,              *)
(* gold_list_len).                                                         *)
(***************************************************************************)
WellFormed ==
    /\ predicted_list # <<>>
    /\ gold_list # <<>>
    /\ SameStream
    /\ \A p \in PredictedIdx : predicted_list[p].head_idx \in 0..Len(predicted_list)
    /\ \A g \in GoldIdx : gold_list[g].head_idx \in 0..Len(gold_list)

C5_RatesWithinBounds ==
    (Called /\ WellFormed) =>
        /\ raised = NoException
        /\ \A rate \in {"precision", "recall", "f1_score", "pos_acc",
                        "uas_score", "uas_precision", "uas_recall", "uas_f1_score",
                        "las_score", "las_precision", "las_recall", "las_f1_score"} :
              InPercentRange(evaluation[rate])
        /\ 0 <= evaluation.las_match
        /\ evaluation.las_match <= evaluation.uas_match
        /\ evaluation.uas_match <= evaluation.correct_count
        /\ 0 <= evaluation.pos_match
        /\ evaluation.pos_match <= evaluation.correct_count
        /\ evaluation.correct_count <= evaluation.predicted_list_len
        /\ evaluation.correct_count <= evaluation.gold_list_len

\* a well-formed sentence with a label miss on a correctly attached token
C5_Witness ==
    /\ Called
    /\ WellFormed
    /\ evaluation.las_match < evaluation.uas_match
    /\ evaluation.uas_match < evaluation.correct_count
    /\ evaluation.pos_match < evaluation.correct_count
    /\ RLt(Zero, evaluation.uas_f1_score)

(***************************************************************************)
(* C6: for non-empty lists with no predicted token on a gold token's span  *)
(* get_parser_evaluation returns pos_acc = uas_score = las_score = 0 and   *)
(* pos_match = uas_match = las_match = 0; with correct_count > 0 the three *)
(* scores are the matches over correct_count times 100, the precisions     *)
(* are over predicted_list_len and the recalls over gold_list_len.         *)
(***************************************************************************)
NoSharedSpan == \A p \in PredictedIdx : \A g \in GoldIdx : ~ SameSpan(p, g)

ScoresOverCorrectCount ==
    /\ evaluation.pos_acc = Percent(evaluation.pos_match, evaluation.correct_count)
    /\ evaluation.uas_score = Percent(evaluation.uas_match, evaluation.correct_count)
    /\ evaluation.las_score = Percent(evaluation.las_match, evaluation.correct_count)
    /\ evaluation.uas_precision = Percent(evaluation.uas_match, Len(predicted_list))
    /\ evaluation.las_precision = Percent(evaluation.las_match, Len(predicted_list))
    /\ evaluation.uas_recall = Percent(evaluation.uas_match, Len(gold_list))
    /\ evaluation.las_recall = Percent(evaluation.las_match, Len(gold_list))

C6_ZeroCorrectCountGuard ==
    (Called /\ predicted_list # <<>> /\ gold_list # <<>>) =>
        /\ NoSharedSpan =>
              /\ raised = NoException
              /\ evaluation.correct_count = 0
              /\ evaluation.pos_acc = Zero
              /\ evaluation.uas_score = Zero
              /\ evaluation.las_score = Zero
              /\ evaluation.pos_match = 0
              /\ evaluation.uas_match = 0
              /\ evaluation.las_match = 0
        /\ (Returned /\ evaluation.correct_count > 0) => ScoresOverCorrectCount

(***************************************************************************)
(* C7: for non-empty lists with the same token texts in the same order,    *)
(* correct_count = predicted_list_len = gold_list_len, precision = recall  *)
(* = f1_score = 100, the alignment map is the identity on 0..N, and        *)
(* uas_match, las_match and pos_match count the positions with equal       *)
(* head_idx, equal head_idx and dep_label, and equal pos.                  *)
(***************************************************************************)
SpanIdentical ==
    /\ predicted_list # <<>>
    /\ Words(predicted_list) = Words(gold_list)

C7_IdenticalSegmentation ==
    (Called /\ SpanIdentical) =>
        /\ raised = NoException
        /\ evaluation.correct_count = Len(predicted_list)
        /\ evaluation.predicted_list_len = Len(predicted_list)
        /\ evaluation.gold_list_len = Len(predicted_list)
        /\ evaluation.precision = Hundred
        /\ evaluation.recall = Hundred
        /\ evaluation.f1_score = Hundred
        /\ predict_gold_map = [p \in 0..Len(predicted_list) |-> p]
        /\ evaluation.uas_match = Cardinality({i \in PredictedIdx :
              predicted_list[i].head_idx = gold_list[i].head_idx})
        /\ evaluation.las_match = Cardinality({i \in PredictedIdx :
              /\ predicted_list[i].head_idx = gold_list[i].head_idx
              /\ predicted_list[i].dep_label = gold_list[i].dep_label})
        /\ evaluation.pos_match = Cardinality({i \in PredictedIdx :
              predicted_list[i].pos = gold_list[i].pos})

\* two identical tokens: pos right on one, heads right on both, label right
\* on one
C7_Witness ==
    /\ Called
    /\ SpanIdentical
    /\ Len(predicted_list) = 2
    /\ evaluation.pos_match = 1
    /\ evaluation.uas_match = 2
    /\ evaluation.las_match = 1
    /\ evaluation.pos_acc = FromInt(50)
    /\ evaluation.uas_score = Hundred
    /\ evaluation.las_score = FromInt(50)

(***************************************************************************)
(* C9 (SpecExtend): appending to both lists of a sentence with equally     *)
(* long character streams one token with the same text, whose predicted    *)
(* head looked up in the alignment map is its gold head, never lowers      *)
(* uas_score.                                                              *)
(***************************************************************************)
AttachedExtension ==
    /\ pc = "done"
    /\ pc' = "extended"
    /\ raised' = NoException
    /\ predict_gold_map'[predicted_list'[Len(predicted_list')].head_idx] =
           gold_list'[Len(gold_list')].head_idx

C9_UasMonotone ==
    [][AttachedExtension => RLe(evaluation.uas_score, evaluation'.uas_score)]_vars

\* an extended sentence whose new token is attached as in gold while an
\* earlier aligned token is not
C9_Witness ==
    /\ pc = "extended"
    /\ raised = NoException
    /\ predict_gold_map[predicted_list[Len(predicted_list)].head_idx] =
           gold_list[Len(gold_list)].head_idx
    /\ predict_gold_map[Len(predicted_list)] = Len(gold_list)
    /\ 0 < evaluation.uas_match
    /\ evaluation.uas_match < evaluation.correct_count

(***************************************************************************)
(* SpecEpoch: sentence records are collected as in train.py lines 132-138, *)
(* then get_epoch_evaluation is called on them (line 143).                 *)
(***************************************************************************)
\* sentences that score: three fully right, one with no shared span, one
\* with a wrong head and a wrong label
EpochInputs ==
    { <<PlainList(<<"a", "b">>), PlainList(<<"a", "b">>)>>,
      <<PlainList(<<"ab">>), PlainList(<<"a", "b">>)>>,
      <<PlainList(<<"a", "b", "ab">>), PlainList(<<"a", "b", "ab">>)>>,
      <<PlainList(<<"a", "b", "ab">>), PlainList(<<"ab", "ab">>)>>,
      <<(<<Token("a", "N", 2, "obj"), Token("b", "V", 0, "obj")>>),
        PlainList(<<"a", "b">>)>> }

InitEpoch ==
    /\ predicted_list = <<>>
    /\ gold_list = <<>>
    /\ pc = "collect"
    /\ NotCalled
    /\ EpochIdle
    /\ TrainIdle

\* lines 137-138
AppendEvaluation ==
    /\ pc = "collect"
    /\ Len(evaluation_list) < MaxSentences
    /\ \E input \in EpochInputs :
          /\ predicted_list' = input[1]
          /\ gold_list' = input[2]
          /\ Call(input[1], input[2])
          /\ Raises(input[1], input[2]) = NoException
          /\ evaluation_list' =
                 Append(evaluation_list, get_parser_evaluation(input[1], input[2]))
    /\ UNCHANGED <<pc, epoch_eval, trainVars>>

\* line 143
EpochEvaluate ==
    /\ pc = "collect"
    /\ IF evaluation_list = <<>>
       THEN /\ raised' = "ZeroDivisionError"
            /\ pc' = "epoch_raised"
            /\ UNCHANGED epoch_eval
       ELSE /\ epoch_eval' = get_epoch_evaluation(evaluation_list)
            /\ pc' = "epoch_done"
            /\ UNCHANGED raised
    /\ UNCHANGED <<predicted_list, gold_list, predict_gold_map, correct_count,
                   evaluation, evaluation_list, trainVars>>

NextEpoch == AppendEvaluation \/ EpochEvaluate

SpecEpoch == InitEpoch /\ [][NextEpoch]_vars

(***************************************************************************)
(* C8 (SpecEpoch): for a non-empty list of N records every rate of the     *)
(* epoch record is the unweighted mean of the per-sentence rate (N times   *)
(* it is their sum) and every count is the sum of the per-sentence counts; *)
(* correct counts 2,0,3 over gold lengths 2,2,3 give correct_words = 5,    *)
(* all_gold_words = 7 and word_recall = 200/3, not the pooled 500/7.       *)
(***************************************************************************)
RateFields ==
    { <<"word_precision", "precision">>, <<"word_recall", "recall">>,
      <<"word_f1_score", "f1_score">>, <<"pos_accuracy", "pos_acc">>,
      <<"uas_accuracy", "uas_score">>, <<"las_accuracy", "las_score">>,
      <<"uas_f1_score", "uas_f1_score">>, <<"las_f1_score", "las_f1_score">> }

CountFields ==
    { <<"correct_words", "correct_count">>, <<"all_gold_words", "gold_list_len">>,
      <<"all_predicted_words", "predicted_list_len">>,
      <<"correct_pos", "pos_match">>, <<"correct_uas", "uas_match">>,
      <<"correct_las", "las_match">> }

RECURSIVE Total(_, _, _)
Total(records, key, n) ==
    IF n = 0 THEN Zero ELSE RAdd(Total(records, key, n - 1), records[n][key])

RECURSIVE Count(_, _, _)
Count(records, key, n) ==
    IF n = 0 THEN 0 ELSE Count(records, key, n - 1) + records[n][key]

MacroExample ==
    /\ Column(evaluation_list, "correct_count") = <<2, 0, 3>>
    /\ Column(evaluation_list, "gold_list_len") = <<2, 2, 3>>

C8_MacroMeanAndSums ==
    pc = "epoch_done" =>
        LET n == Len(evaluation_list) IN
        /\ n > 0
        /\ \A f \in RateFields :
              RMul(FromInt(n), epoch_eval[f[1]]) = Total(evaluation_list, f[2], n)
        /\ \A f \in CountFields :
              epoch_eval[f[1]] = Count(evaluation_list, f[2], n)
        /\ MacroExample =>
              /\ epoch_eval.correct_words = 5
              /\ epoch_eval.all_gold_words = 7
              /\ epoch_eval.word_recall = Rat(200, 3)
              /\ epoch_eval.word_recall # Rat(500, 7)

C8_Witness ==
    /\ pc = "epoch_done"
    /\ MacroExample
    /\ epoch_eval.word_recall = Rat(200, 3)

(***************************************************************************)
(* SpecTrain: the epoch loop of train(), lines 95-164.  The batches of an  *)
(* epoch are one step that draws the epoch's mean loss; predict() is a     *)
(* choice among the analyses of the sentence's character stream;           *)
(* last_batch_loss is kept as the sum and length the loop reads;           *)
(* save_model and write_log are recorded by the epoch number they are      *)
(* called with.                                                            *)
(***************************************************************************)
EvalInterval == 5
MinEpochs == 20

LossValues == {1, 2}

\* the gold analyses of eval_parser_label.data
EvalCorpus ==
    << (<<Token("a", "N", 2, "obj"), Token("b", "V", 0, "root")>>),
       (<<Token("ab", "N", 0, "root")>>) >>

\* what predict() may return for each sentence of the corpus
Predictions ==
    << { (<<Token("a", "N", 2, "obj"), Token("b", "V", 0, "root")>>),
         (<<Token("a", "N", 0, "obj"), Token("b", "V", 0, "root")>>),
         (<<Token("ab", "V", 0, "root")>>) },
       { (<<Token("a", "N", 2, "obj"), Token("b", "V", 0, "root")>>) } >>

\* one predicted analysis per sentence of the corpus
PredictionRuns ==
    {run \in [1..Len(EvalCorpus) -> UNION {Predictions[i] : i \in 1..Len(EvalCorpus)}] :
        \A i \in 1..Len(EvalCorpus) : run[i] \in Predictions[i]}

InitTrain ==
    /\ predicted_list = <<>>
    /\ gold_list = <<>>
    /\ pc = "train"
    /\ NotCalled
    /\ EpochIdle
    /\ TrainIdle

\* lines 103-125: the batches of one epoch
TrainBatches ==
    /\ pc = "train"
    /\ \E loss \in LossValues :
          /\ training_batch_loss' = loss
          /\ last_batch_loss' = [sum |-> last_batch_loss.sum + loss,
                                 len |-> last_batch_loss.len + 1]
    /\ pc' = "evaluate"
    /\ UNCHANGED <<evalVars, epochVars, epoch_count, last_f1, last_uas, max_f1,
                   max_uas, saved, logs>>

\* the test of line 151 with >= in place of >
Improves_OrEqual(uas_score, best) == RLe(best, uas_score)

\* line 151
Improves(uas_score, best) == RLt(best, uas_score)

\* lines 129-145 for each way predict() may go: the sentence records of
\* lines 137-138 and the epoch record of line 143
EvaluationPasses ==
    {[evaluation_list |->
          [i \in 1..Len(EvalCorpus) |-> get_parser_evaluation(run[i], EvalCorpus[i])],
      epoch_eval |-> get_epoch_evaluation(
          [i \in 1..Len(EvalCorpus) |-> get_parser_evaluation(run[i], EvalCorpus[i])])] :
      run \in {r \in PredictionRuns :
                  \A i \in 1..Len(EvalCorpus) : Raises(r[i], EvalCorpus[i]) = NoException}}

\* lines 128-156 on an epoch that is evaluated
EvaluateEpoch ==
    /\ pc = "evaluate"
    /\ epoch_count % EvalInterval = 0
    /\ \E pass \in EvaluationPasses :
          /\ evaluation_list' = pass.evaluation_list
          /\ epoch_eval' = pass.epoch_eval
          /\ last_f1' = Append(last_f1, pass.epoch_eval.word_f1_score)
          /\ last_uas' = Append(last_uas, pass.epoch_eval.uas_accuracy)
          /\ saved' = IF Improves(pass.epoch_eval.uas_accuracy, max_uas)
                      THEN Append(saved, epoch_count) ELSE saved
          /\ max_f1' = RMax(pass.epoch_eval.word_f1_score, max_f1)
          /\ max_uas' = RMax(pass.epoch_eval.uas_accuracy, max_uas)
          /\ logs' = Append(logs, epoch_count)
    /\ pc' = "converge"
    /\ UNCHANGED <<evalVars, epoch_count, training_batch_loss, last_batch_loss>>

\* line 128 on any other epoch
SkipEvaluation ==
    /\ pc = "evaluate"
    /\ epoch_count % EvalInterval # 0
    /\ pc' = "converge"
    /\ UNCHANGED <<evalVars, epochVars, trainVars>>

\* lines 158-164; the loop is followed for ExtraEpochs epochs past MinEpochs
CheckConvergence ==
    /\ pc = "converge"
    /\ IF \/ training_batch_loss * last_batch_loss.len < last_batch_loss.sum
          \/ epoch_count < MinEpochs
       THEN /\ epoch_count < MinEpochs + ExtraEpochs
            /\ epoch_count' = epoch_count + 1
            /\ pc' = "train"
       ELSE /\ pc' = "stopped"
            /\ UNCHANGED epoch_count
    /\ UNCHANGED <<evalVars, epochVars, last_f1, last_uas, max_f1, max_uas,
                   training_batch_loss, last_batch_loss, saved, logs>>

NextTrain == TrainBatches \/ EvaluateEpoch \/ SkipEvaluation \/ CheckConvergence

SpecTrain == InitTrain /\ [][NextTrain]_vars

(***************************************************************************)
(* C10 (SpecTrain): evaluation runs exactly on the epochs with             *)
(* epoch_count % 5 = 0; on such an epoch the model is saved if and only    *)
(* if the epoch's uas_accuracy is strictly greater than the maximum of     *)
(* the earlier evaluated epochs (max_uas, initially 0); max_uas never      *)
(* decreases; once some evaluated epoch had uas_accuracy > 0 the last      *)
(* saved checkpoint is from the earliest evaluated epoch with the highest  *)
(* uas_accuracy so far; a log is written for every evaluated epoch.        *)
(***************************************************************************)
RECURSIVE Highest(_)
Highest(scores) ==
    IF scores = <<>> THEN Zero
    ELSE RMax(Highest(SubSeq(scores, 1, Len(scores) - 1)), scores[Len(scores)])

\* the epochs whose evaluation step is behind the loop
EvaluatedEpochs ==
    {e \in 0..epoch_count :
        /\ e % 5 = 0
        /\ e < epoch_count \/ pc \in {"converge", "stopped"}}

EarliestBest ==
    CHOOSE i \in 1..Len(last_uas) :
        /\ last_uas[i] = Highest(last_uas)
        /\ \A j \in 1..(i - 1) : last_uas[j] # Highest(last_uas)

CheckpointState ==
    /\ Len(last_uas) = Cardinality(EvaluatedEpochs)
    /\ Len(logs) = Cardinality(EvaluatedEpochs)
    /\ \A i \in 1..Len(logs) : logs[i] = 5 * (i - 1)
    /\ max_uas = Highest(last_uas)
    /\ IF RLt(Zero, Highest(last_uas))
       THEN saved # <<>> /\ saved[Len(saved)] = 5 * (EarliestBest - 1)
       ELSE saved = <<>>

EvaluationStep == pc = "evaluate" /\ pc' = "converge"

CheckpointStep ==
    /\ RLe(max_uas, max_uas')
    /\ (EvaluationStep /\ epoch_count % 5 = 0) =>
          /\ last_uas' = Append(last_uas, epoch_eval'.uas_accuracy)
          /\ logs' = Append(logs, epoch_count)
          /\ IF RLt(Highest(last_uas), epoch_eval'.uas_accuracy)
             THEN saved' = Append(saved, epoch_count)
             ELSE saved' = saved
    /\ (EvaluationStep /\ epoch_count % 5 # 0) =>
          UNCHANGED <<last_uas, logs, saved, max_uas, epoch_eval>>
    /\ ~ EvaluationStep => UNCHANGED <<last_uas, logs, saved, max_uas>>

C10_SaveOnStrictImprovement == [] CheckpointState /\ [][CheckpointStep]_vars

\* a later evaluated epoch equals the best uas_accuracy and is logged but
\* not saved
C10_Witness ==
    /\ Len(saved) >= 2
    /\ Len(logs) > Len(saved)
    /\ \E i, j \in 1..Len(last_uas) :
          /\ i < j
          /\ last_uas[i] = max_uas
          /\ last_uas[j] = max_uas
          /\ saved[Len(saved)] = logs[i]
    /\ epoch_count > 20

====
